---- MODULE Spec2Model ----
(***************************************************************************)
(* State-machine model of app.py: a Streamlit page that submits a Google   *)
(* Maps scrape to an Apify actor (scrape_google_maps), keeps the returned  *)
(* records in the session state and forwards them to a webhook             *)
(* (send_to_webhook), in bulk or one record per POST.                      *)
(*                                                                         *)
(* Three specifications share the variables:                               *)
(*   Spec         the page: script reruns of one session, driven by the    *)
(*                user's clicks;                                           *)
(*   SpecDeliver  send_to_webhook applied to every bounded argument list;  *)
(*   SpecFetch    scrape_google_maps applied to every bounded argument.    *)
(***************************************************************************)
EXTENDS Integers, Sequences, FiniteSets, TLC

VARIABLES
    secretsToken,          \* st.secrets["APIFY_API_TOKEN"], None when the lookup raises
    envToken,              \* os.getenv("APIFY_API_TOKEN"), None when unset
    scraping_results,      \* st.session_state.scraping_results
    scraping_in_progress,  \* st.session_state.scraping_in_progress
    pc,                    \* position of the script run of the session
    widgets,               \* the values the widgets return in this script run
    fetch,                 \* the frame of scrape_google_maps
    wh,                    \* the frame of send_to_webhook
    submitted_runs         \* maxCrawledPlacesPerSearch of every run submitted to the actor

vars == <<secretsToken, envToken, scraping_results, scraping_in_progress,
          pc, widgets, fetch, wh, submitted_runs>>

session == <<scraping_results, scraping_in_progress>>
tokens == <<secretsToken, envToken>>

----------------------------------------------------------------------------
(* Bounds and program constants *)

\* longest dataset / record list explored
MaxRecords == 2

\* st.slider("Maximum Results", min_value=1, max_value=500, ...)
MinResults == 1
MaxResults == 500

----------------------------------------------------------------------------
(* Python values *)

\* An optional value: None is the empty tuple, a value v is <<v>>.
None == <<>>
Some(v) == <<v>>
IsNone(x) == x = <<>>
Val(x) == x[1]

\* Truth value of a str (or None): non-empty.
TruthyStr(x) == ~IsNone(x) /\ Val(x) # ""

\* Truth value of a list (or None): non-empty.
TruthyList(x) == ~IsNone(x) /\ Len(Val(x)) > 0

\* Records are opaque mappings; two distinguishable ones are enough to see order.
Records == {"recA", "recB"}

\* Every ordered record list of at most MaxRecords records.
ResultSets == UNION {[1..n -> Records] : n \in 0..MaxRecords}

----------------------------------------------------------------------------
(* send_to_webhook *)

\* What requests.post(...) followed by response.raise_for_status() can meet:
\* a transport exception raised by post, or a response with a status code.
StatusCodes == {200, 304, 404, 500}
PostOutcomes ==
    {[kind |-> k, status |-> 0] : k \in {"Timeout", "ConnectionError"}}
    \cup {[kind |-> "response", status |-> s] : s \in StatusCodes}

\* requests.post raises a RequestException when no response arrives.
PostRaises(o) == o.kind # "response"

\* response.raise_for_status() raises HTTPError for 4xx and 5xx responses only.
\* Variant: only server errors raise.
RaiseForStatusM5xx(o) == o.kind = "response" /\ o.status >= 500 /\ o.status < 600
RaiseForStatus(o) == o.kind = "response" /\ o.status >= 400 /\ o.status < 600

\* The attempt ends in the except clause for RequestException.
AttemptFails(o) == PostRaises(o) \/ RaiseForStatus(o)

\* str(e) of the exception the attempt raised.
Cause(o) ==
    IF o.kind # "response" THEN o.kind
    ELSE IF o.status < 500 THEN ToString(o.status) \o " Client Error"
    ELSE ToString(o.status) \o " Server Error"

\* The payload of the bulk POST (the timestamp is left out: it is the clock's).
\* Variant: the slice drops the last record.
BulkPayloadMShort(data) ==
    [total_results |-> Len(data), data |-> SubSeq(data, 1, Len(data) - 1)]
BulkPayload(data) == [total_results |-> Len(data), data |-> data]

\* The payload of the POST of the index-th record, enumerate(data, 1).
\* Variant: enumerate(data) without the start, numbering from 0.
IndividualPayloadMZero(data, index) ==
    [record_number |-> index - 1, total_records |-> Len(data), data |-> data[index]]
IndividualPayload(data, index) ==
    [record_number |-> index, total_records |-> Len(data), data |-> data[index]]

\* The value returned after the loop of the individual mode.
\* Variant: a delivery in which every record failed reports failure.
IndividualOutcomeMStrict(success_count, failed_count) ==
    IF failed_count = 0
    THEN [success |-> TRUE,
          message |-> "Successfully sent all " \o ToString(success_count)
                      \o " records individually to webhook"]
    ELSE [success |-> success_count > 0,
          message |-> "Sent " \o ToString(success_count)
                      \o " records successfully, " \o ToString(failed_count) \o " failed"]
IndividualOutcome(success_count, failed_count) ==
    IF failed_count = 0
    THEN [success |-> TRUE,
          message |-> "Successfully sent all " \o ToString(success_count)
                      \o " records individually to webhook"]
    ELSE [success |-> TRUE,
          message |-> "Sent " \o ToString(success_count)
                      \o " records successfully, " \o ToString(failed_count) \o " failed"]

\* The value returned by the bulk mode once its POST met outcome o.
BulkOutcome(data, o) ==
    IF AttemptFails(o)
    THEN [success |-> FALSE, message |-> "Webhook error: " \o Cause(o)]
    ELSE [success |-> TRUE,
          message |-> "Successfully sent " \o ToString(Len(data))
                      \o " records in bulk to webhook"]

\* No call of send_to_webhook was made yet.
NoDelivery ==
    [pc |-> "none", data |-> <<>>, url |-> "", individually |-> FALSE,
     index |-> 0, success_count |-> 0, failed_count |-> 0,
     posts |-> <<>>, events |-> <<>>, ret |-> None]

\* The frame on entry of send_to_webhook(data, webhook_url, send_individually).
SendToWebhookCall(data, url, individually) ==
    [pc |-> IF individually THEN "loop" ELSE "bulk",
     data |-> data, url |-> url, individually |-> individually,
     index |-> 0, success_count |-> 0, failed_count |-> 0,
     posts |-> <<>>, events |-> <<>>, ret |-> None]

\* One iteration of the loop: the POST of the next record; the pause follows a
\* successful attempt only, the except clause counts the failure and continues.
IndividualPost ==
    /\ wh.pc = "loop"
    /\ wh.index < Len(wh.data)
    /\ \E o \in PostOutcomes :
        LET i == wh.index + 1
            post == [url |-> wh.url, payload |-> IndividualPayload(wh.data, i),
                     outcome |-> o]
        IN  wh' = IF AttemptFails(o)
                  THEN [wh EXCEPT !.index = i,
                                  !.posts = Append(@, post),
                                  !.events = Append(@, "post"),
                                  !.failed_count = @ + 1]
                  ELSE [wh EXCEPT !.index = i,
                                  !.posts = Append(@, post),
                                  !.events = @ \o <<"post", "sleep">>,
                                  !.success_count = @ + 1]
    /\ UNCHANGED <<tokens, session, pc, widgets, fetch, submitted_runs>>

\* The loop is over: the counters are summarised in the returned message.
IndividualReturn ==
    /\ wh.pc = "loop"
    /\ wh.index = Len(wh.data)
    /\ wh' = [wh EXCEPT !.pc = "done",
                        !.ret = Some(IndividualOutcome(wh.success_count, wh.failed_count))]
    /\ UNCHANGED <<tokens, session, pc, widgets, fetch, submitted_runs>>

\* The bulk mode: one POST of the whole list, then the return value.
BulkPost ==
    /\ wh.pc = "bulk"
    /\ \E o \in PostOutcomes :
        LET post == [url |-> wh.url, payload |-> BulkPayload(wh.data), outcome |-> o]
        IN  wh' = [wh EXCEPT !.pc = "done",
                             !.posts = Append(@, post),
                             !.events = Append(@, "post"),
                             !.ret = Some(BulkOutcome(wh.data, o))]
    /\ UNCHANGED <<tokens, session, pc, widgets, fetch, submitted_runs>>

----------------------------------------------------------------------------
(* scrape_google_maps *)

\* str(e) of what the actor call and the dataset iteration can raise.
ActorErrors == {"ApifyApiError: run failed", "ConnectionError"}
IterateErrors == {"ConnectionError"}

\* return False, str(e), None
FetchFailure(cause) ==
    [success |-> FALSE, results |-> [kind |-> "str", items |-> <<>>, text |-> cause],
     run |-> None]

\* return True, results, run
FetchSuccess(results) ==
    [success |-> TRUE, results |-> [kind |-> "list", items |-> results, text |-> ""],
     run |-> Some("run")]

\* No call of scrape_google_maps was made yet.
NoFetch ==
    [pc |-> "none", max_results |-> 0, options |-> FALSE, dataset |-> <<>>,
     results |-> <<>>, failed |-> FALSE, ret |-> None]

\* The frame on entry of scrape_google_maps(search_query, location, max_results,
\* additional_options); options tells whether additional_options is a dict.
ScrapeCall(max_results, options) ==
    [pc |-> "input", max_results |-> max_results, options |-> options,
     dataset |-> <<>>, results |-> <<>>, failed |-> FALSE, ret |-> None]

\* The client and run_input are built locally; additional_options.get raises
\* AttributeError on the default None, which the except clause returns.
BuildRunInput ==
    /\ fetch.pc = "input"
    /\ fetch' = IF fetch.options
                THEN [fetch EXCEPT !.pc = "actor"]
                ELSE [fetch EXCEPT !.pc = "done", !.failed = TRUE,
                        !.ret = Some(FetchFailure("'NoneType' object has no attribute 'get'"))]
    /\ UNCHANGED <<tokens, session, pc, widgets, wh, submitted_runs>>

\* client.actor(...).call(run_input=run_input): the run is submitted with
\* maxCrawledPlacesPerSearch = max_results, whatever its value, and either
\* raises or ends with a dataset.
ActorCall ==
    /\ fetch.pc = "actor"
    /\ submitted_runs' = submitted_runs \cup {fetch.max_results}
    /\ \/ \E e \in ActorErrors :
            fetch' = [fetch EXCEPT !.pc = "done", !.failed = TRUE,
                                   !.ret = Some(FetchFailure(e))]
       \/ \E d \in ResultSets :
            fetch' = [fetch EXCEPT !.pc = "iterate", !.dataset = d, !.results = <<>>]
    /\ UNCHANGED <<tokens, session, pc, widgets, wh>>

\* for item in ...iterate_items(): results.append(item)
IterateItem ==
    /\ fetch.pc = "iterate"
    /\ Len(fetch.results) < Len(fetch.dataset)
    /\ fetch' = [fetch EXCEPT !.results = Append(@, fetch.dataset[Len(@) + 1])]
    /\ UNCHANGED <<tokens, session, pc, widgets, wh, submitted_runs>>

\* The iteration raises while a page is read: the except clause returns the
\* cause and drops the local list.
\* Variant: the exception ends the loop and the items read so far are returned.
IterateRaiseMPartial ==
    /\ fetch.pc = "iterate"
    /\ Len(fetch.results) < Len(fetch.dataset)
    /\ fetch' = [fetch EXCEPT !.pc = "done", !.failed = TRUE,
                              !.ret = Some(FetchSuccess(fetch.results))]
    /\ UNCHANGED <<tokens, session, pc, widgets, wh, submitted_runs>>
IterateRaise ==
    /\ fetch.pc = "iterate"
    /\ Len(fetch.results) < Len(fetch.dataset)
    /\ \E e \in IterateErrors :
        fetch' = [fetch EXCEPT !.pc = "done", !.failed = TRUE,
                               !.ret = Some(FetchFailure(e))]
    /\ UNCHANGED <<tokens, session, pc, widgets, wh, submitted_runs>>

\* return True, results, run
ScrapeReturn ==
    /\ fetch.pc = "iterate"
    /\ Len(fetch.results) = Len(fetch.dataset)
    /\ fetch' = [fetch EXCEPT !.pc = "done", !.ret = Some(FetchSuccess(fetch.results))]
    /\ UNCHANGED <<tokens, session, pc, widgets, wh, submitted_runs>>

----------------------------------------------------------------------------
(* The page: one script run per user interaction *)

\* value=50 of the "Maximum Results" slider
DefaultResults == 50

\* API_TOKEN: the secret when the lookup does not raise, else the environment's.
API_TOKEN == IF ~IsNone(secretsToken) THEN secretsToken ELSE envToken

\* if not API_TOKEN: st.error(...); st.stop()
\* Variant: the check is left out.
TokenMissingMNever == FALSE
TokenMissing == ~TruthyStr(API_TOKEN)

\* What the user can type in the text inputs and pick on the slider.
Queries == {"", "dental clinics"}
Locations == {"", "Dubai, UAE"}
SliderValues == {MinResults, MaxResults}
Urls == {"", "https://hook.example/data"}

\* The widgets before any interaction.
DefaultWidgets ==
    [submit_button |-> FALSE, search_query |-> "", location |-> "",
     max_results |-> DefaultResults, webhook_url |-> "",
     send_button |-> FALSE, webhook_url_main |-> "", send_individually |-> FALSE]

\* The user fills the form and the sidebar and presses "Start Scraping": the
\* script reruns with submit_button True.
SubmitForm ==
    /\ pc = "idle"
    /\ \E q \in Queries, l \in Locations, m \in SliderValues, u \in Urls :
        widgets' = [widgets EXCEPT !.submit_button = TRUE, !.send_button = FALSE,
                                   !.search_query = q, !.location = l,
                                   !.max_results = m, !.webhook_url = u]
    /\ pc' = "run_start"
    /\ UNCHANGED <<tokens, session, fetch, wh, submitted_runs>>

\* The user presses "Send to Webhook": the button exists only while results are
\* displayed and is disabled while the URL of the tab is empty.
ClickSend ==
    /\ pc = "idle"
    /\ TruthyList(scraping_results)
    /\ \E u \in Urls \ {""}, i \in BOOLEAN :
        widgets' = [widgets EXCEPT !.submit_button = FALSE, !.send_button = TRUE,
                                   !.webhook_url_main = u, !.send_individually = i]
    /\ pc' = "run_start"
    /\ UNCHANGED <<tokens, session, fetch, wh, submitted_runs>>

\* After st.stop() the page shows the error only; reloading it runs the script again.
Reload ==
    /\ pc = "stopped"
    /\ pc' = "run_start"
    /\ UNCHANGED <<tokens, session, widgets, fetch, wh, submitted_runs>>

\* The API token check at the top of the script.
TokenCheck ==
    /\ pc = "run_start"
    /\ pc' = IF TokenMissing THEN "stopped" ELSE "handler"
    /\ UNCHANGED <<tokens, session, widgets, fetch, wh, submitted_runs>>

\* if submit_button and search_query and location:
FormComplete ==
    widgets.submit_button /\ widgets.search_query # "" /\ widgets.location # ""

\* if not st.session_state.scraping_in_progress:
\* Variant: the flag is not consulted.
MayStartMAlways == TRUE
MayStart == ~scraping_in_progress

\* "Handle form submission": a complete form starts a fetch when the flag is
\* clear (the flag is set and the results cleared before the call); anything
\* else falls through to the display.
HandleSubmit ==
    /\ pc = "handler"
    /\ IF FormComplete /\ MayStart
       THEN /\ scraping_in_progress' = TRUE
            /\ scraping_results' = None
            /\ fetch' = ScrapeCall(widgets.max_results, TRUE)
            /\ pc' = "scrape"
       ELSE /\ pc' = "display"
            /\ UNCHANGED <<session, fetch>>
    /\ UNCHANGED <<tokens, widgets, wh, submitted_runs>>

\* success, results, run_info = scrape_google_maps(...) has returned: a success
\* stores the list (and sends it in bulk when the sidebar has a URL), a failure
\* clears the flag. The flag is not written on the success path.
HandleScrapeResult ==
    /\ pc = "scrape"
    /\ fetch.pc = "done"
    /\ LET ret == Val(fetch.ret) IN
       IF ret.success
       THEN /\ scraping_results' = Some(ret.results.items)
            /\ UNCHANGED scraping_in_progress
            /\ IF widgets.webhook_url # ""
               THEN /\ wh' = SendToWebhookCall(ret.results.items, widgets.webhook_url, FALSE)
                    /\ pc' = "auto_send"
               ELSE /\ pc' = "display"
                    /\ UNCHANGED wh
       ELSE /\ scraping_in_progress' = FALSE
            /\ pc' = "display"
            /\ UNCHANGED <<scraping_results, wh>>
    /\ UNCHANGED <<tokens, widgets, fetch, submitted_runs>>

\* webhook_success, webhook_msg = send_to_webhook(...) has returned: a toast,
\* and the call's frame is gone.
AutoSendDone ==
    /\ pc = "auto_send"
    /\ wh.pc = "done"
    /\ pc' = "display"
    /\ wh' = NoDelivery
    /\ UNCHANGED <<tokens, session, widgets, fetch, submitted_runs>>

\* "Display results": with a non-empty list the tabs are drawn and a pressed
\* "Send to Webhook" calls send_to_webhook in the selected mode.
Display ==
    /\ pc = "display"
    /\ IF TruthyList(scraping_results) /\ widgets.send_button
       THEN /\ wh' = SendToWebhookCall(Val(scraping_results), widgets.webhook_url_main,
                                       widgets.send_individually)
            /\ pc' = "button_send"
       ELSE /\ pc' = "idle"
            /\ UNCHANGED wh
    /\ UNCHANGED <<tokens, session, widgets, fetch, submitted_runs>>

\* send_to_webhook has returned to the button's handler: st.success or st.error.
ButtonSendDone ==
    /\ pc = "button_send"
    /\ wh.pc = "done"
    /\ pc' = "idle"
    /\ wh' = NoDelivery
    /\ UNCHANGED <<tokens, session, widgets, fetch, submitted_runs>>

\* The session opens: the token is read, the session state initialised and the
\* first script run begins.
Init ==
    /\ secretsToken \in {None, Some(""), Some("apify_api_0123")}
    /\ envToken \in {None, Some("apify_api_0123")}
    /\ scraping_results = None
    /\ scraping_in_progress = FALSE
    /\ pc = "run_start"
    /\ widgets = DefaultWidgets
    /\ fetch = NoFetch
    /\ wh = NoDelivery
    /\ submitted_runs = {}

Next ==
    \/ SubmitForm
    \/ ClickSend
    \/ Reload
    \/ TokenCheck
    \/ HandleSubmit
    \/ BuildRunInput
    \/ ActorCall
    \/ IterateItem
    \/ IterateRaise
    \/ ScrapeReturn
    \/ HandleScrapeResult
    \/ BulkPost
    \/ IndividualPost
    \/ IndividualReturn
    \/ AutoSendDone
    \/ Display
    \/ ButtonSendDone

Spec == Init /\ [][Next]_vars

----------------------------------------------------------------------------
(* send_to_webhook on its own *)

\* send_to_webhook(data, webhook_url, send_individually) is called with any
\* record list, once no call is in progress.
DirectSend ==
    /\ pc = "direct_send"
    /\ wh.pc \in {"none", "done"}
    /\ \E d \in ResultSets, u \in Urls \ {""}, i \in BOOLEAN :
        wh' = SendToWebhookCall(d, u, i)
    /\ UNCHANGED <<tokens, session, pc, widgets, fetch, submitted_runs>>

InitDeliver ==
    /\ secretsToken = None
    /\ envToken = Some("apify_api_0123")
    /\ scraping_results = None
    /\ scraping_in_progress = FALSE
    /\ pc = "direct_send"
    /\ widgets = DefaultWidgets
    /\ fetch = NoFetch
    /\ wh = NoDelivery
    /\ submitted_runs = {}

NextDeliver ==
    \/ DirectSend
    \/ BulkPost
    \/ IndividualPost
    \/ IndividualReturn

SpecDeliver == InitDeliver /\ [][NextDeliver]_vars

----------------------------------------------------------------------------
(* scrape_google_maps on its own *)

\* The values of max_results a caller can pass: the ends of the slider's range
\* and their outer neighbours.
FetchArguments == {MinResults - 1, MinResults, MaxResults, MaxResults + 1}

\* scrape_google_maps(search_query, location, max_results, additional_options)
\* is called with any max_results, with or without the options dict.
DirectFetch ==
    /\ pc = "direct_fetch"
    /\ fetch.pc \in {"none", "done"}
    /\ \E m \in FetchArguments, o \in BOOLEAN :
        fetch' = ScrapeCall(m, o)
    /\ UNCHANGED <<tokens, session, pc, widgets, wh, submitted_runs>>

InitFetch ==
    /\ secretsToken = None
    /\ envToken = Some("apify_api_0123")
    /\ scraping_results = None
    /\ scraping_in_progress = FALSE
    /\ pc = "direct_fetch"
    /\ widgets = DefaultWidgets
    /\ fetch = NoFetch
    /\ wh = NoDelivery
    /\ submitted_runs = {}

NextFetch ==
    \/ DirectFetch
    \/ BuildRunInput
    \/ ActorCall
    \/ IterateItem
    \/ IterateRaise
    \/ ScrapeReturn

SpecFetch == InitFetch /\ [][NextFetch]_vars

----------------------------------------------------------------------------
(* The claims *)

\* A POST attempt that failed as the claims mean it: no response, or status >= 400.
ClaimedFailure(o) == o.kind # "response" \/ o.status >= 400

\* The POSTs of the call in progress that failed / that did not fail.
FailedPosts == {k \in 1..Len(wh.posts) : ClaimedFailure(wh.posts[k].outcome)}
GoodPosts == {k \in 1..Len(wh.posts) : ~ClaimedFailure(wh.posts[k].outcome)}

\* C1: a bulk delivery of N >= 0 records issues exactly one POST, to the given
\* URL, with total_results = N and data = the whole list in its order; never a
\* second one, whether the first succeeded or failed.
C1_BulkExactlyOnePost ==
    (wh.pc # "none" /\ ~wh.individually) =>
        /\ Len(wh.posts) <= 1
        /\ wh.pc = "done" =>
            /\ Len(wh.posts) = 1
            /\ wh.posts[1].url = wh.url
            /\ wh.posts[1].payload.total_results = Len(wh.data)
            /\ wh.posts[1].payload.data = wh.data

\* C1 witness: the bulk delivery of an empty list has made its one POST, which failed.
C1_Witness ==
    /\ wh.pc = "done" /\ ~wh.individually /\ wh.data = <<>>
    /\ Len(wh.posts) = 1 /\ ClaimedFailure(wh.posts[1].outcome)

\* C2: an individual delivery issues the POSTs in list order, one per record:
\* the k-th carries record_number = k, total_records = N and the k-th record,
\* for every pattern of successes and failures; on return exactly N were
\* issued, and for N = 0 none was and the outcome is a success.
C2_IndividualOnePostPerRecord ==
    (wh.pc # "none" /\ wh.individually) =>
        /\ Len(wh.posts) = wh.index
        /\ wh.index <= Len(wh.data)
        /\ \A k \in 1..Len(wh.posts) :
            /\ wh.posts[k].url = wh.url
            /\ wh.posts[k].payload =
                 [record_number |-> k, total_records |-> Len(wh.data), data |-> wh.data[k]]
        /\ wh.pc = "done" =>
            /\ Len(wh.posts) = Len(wh.data)
            /\ Len(wh.data) = 0 => Val(wh.ret).success

\* C2 witness: an individual delivery of two records or more has returned, its
\* first POST failed and its second did not.
C2_Witness ==
    /\ wh.pc = "done" /\ wh.individually /\ Len(wh.data) >= 2
    /\ ClaimedFailure(wh.posts[1].outcome) /\ ~ClaimedFailure(wh.posts[2].outcome)

\* C3: an individual delivery always returns success = true after all N
\* records, with X successes and Y failures, X + Y = N, and the message
\* "Sent X records successfully, Y failed" when Y > 0, else
\* "Successfully sent all X records individually to webhook".
C3_IndividualAlwaysSucceeds ==
    (wh.pc = "done" /\ wh.individually) =>
        LET X == Cardinality(GoodPosts)
            Y == Cardinality(FailedPosts)
            r == Val(wh.ret)
        IN  /\ r.success
            /\ X + Y = Len(wh.data)
            /\ r.message =
                 IF Y > 0
                 THEN "Sent " \o ToString(X) \o " records successfully, "
                      \o ToString(Y) \o " failed"
                 ELSE "Successfully sent all " \o ToString(X)
                      \o " records individually to webhook"

\* C3 witness: an individual delivery has returned and every record failed.
C3_Witness ==
    /\ wh.pc = "done" /\ wh.individually /\ Len(wh.data) >= 1
    /\ Cardinality(FailedPosts) = Len(wh.data)

\* The two values a bulk delivery can return.
BulkFailureValue(o) == [success |-> FALSE, message |-> "Webhook error: " \o Cause(o)]
BulkSuccessValue ==
    [success |-> TRUE,
     message |-> "Successfully sent " \o ToString(Len(wh.data)) \o " records in bulk to webhook"]

C5_OutOfRangeRejected ==
    /\ \A m \in submitted_runs : m \in MinResults..MaxResults
    /\ fetch.pc \in {"actor", "iterate"} => fetch.max_results \in MinResults..MaxResults

\* C6: the fetch is all-or-nothing. It returns success, with the whole dataset
\* in the order received, exactly when nothing raised; a failure carries the
\* cause only, and the session's results are never a partial list.
C6_FetchAllOrNothing ==
    /\ fetch.pc = "done" =>
        LET r == Val(fetch.ret) IN
            /\ r.success <=> ~fetch.failed
            /\ r.success => r.results.kind = "list" /\ r.results.items = fetch.dataset
            /\ ~r.success =>
                 r.results.kind = "str" /\ r.results.items = <<>> /\ IsNone(r.run)
    /\ ~IsNone(scraping_results) =>
        /\ fetch.pc = "done"
        /\ ~fetch.failed
        /\ Val(scraping_results) = fetch.dataset

\* C6 witness: the iteration raised after some items were collected, the script
\* has handled the failure and the session holds no results.
C6_Witness ==
    /\ pc = "display" /\ fetch.pc = "done" /\ fetch.failed
    /\ Len(fetch.results) > 0
    /\ IsNone(scraping_results)

\* C7: once a fetch has completed (successfully or not), a later submission of
\* a complete form starts a new fetch, and a successful fetch replaces the held
\* results by its own.
C7_LaterSubmissionFetches ==
    [][ /\ (pc = "handler" /\ FormComplete /\ fetch.pc = "done")
            => (pc' = "scrape" /\ fetch'.pc = "input")
        /\ (pc = "scrape" /\ fetch.pc = "done" /\ pc' # "scrape" /\ ~fetch.failed)
            => scraping_results' = Some(fetch.dataset)
      ]_vars

\* A call of scrape_google_maps is in progress.
FetchInFlight == fetch.pc \in {"input", "actor", "iterate"}

\* C8: at most one fetch per session is in flight: a fetch starts only with the
\* flag false, the flag is true before the call and throughout it, and a
\* submission that finds the flag true starts no fetch.
C8_OneFetchInFlight ==
    [][ /\ (FetchInFlight' /\ ~FetchInFlight) => (~scraping_in_progress /\ pc = "handler")
        /\ FetchInFlight' => scraping_in_progress'
        /\ (pc = "handler" /\ scraping_in_progress)
            => (~FetchInFlight' /\ fetch' = fetch /\ submitted_runs' = submitted_runs)
      ]_vars

\* C8 witness: a complete form is submitted while the flag is true.
C8_Witness == pc = "handler" /\ FormComplete /\ scraping_in_progress

\* C9: with no API token in the secrets nor in the environment the script stops
\* before the form handler: scrape_google_maps is never called, no run submitted.
C9_NoTokenNoFetch ==
    (IsNone(secretsToken) /\ IsNone(envToken)) =>
        /\ pc \in {"run_start", "stopped"}
        /\ fetch.pc = "none"
        /\ submitted_runs = {}

\* C9 witness: no token is configured and the script has stopped.
C9_Witness == IsNone(secretsToken) /\ IsNone(envToken) /\ pc = "stopped"

\* C10: in individual mode every POST attempt, failed or not, is followed by
\* the pause: between two consecutive POSTs there is exactly one pause.
C10_PauseAfterEveryPost ==
    wh.individually =>
        \A i \in 1..Len(wh.events) :
            (wh.events[i] = "post" /\ \E j \in (i + 1)..Len(wh.events) : wh.events[j] = "post")
                => /\ wh.events[i + 1] = "sleep"
                   /\ wh.events[i + 2] = "post"

====
